---------------------------- MODULE Spec2Model ----------------------------
(***************************************************************************)
(* MPCPolicy (hw4/cs285/policies/MPC_policy.py): random-shooting and CEM   *)
(* action selection over an ensemble of learned dynamics models.           *)
(*                                                                         *)
(* Numbers are exact rationals <<numerator, denominator>> in lowest terms  *)
(* with a positive denominator; an action is a tuple of ac_dim numbers, a  *)
(* sequence a tuple of actions and a batch a tuple of sequences, so that   *)
(* batch[k][t][a] is numpy's array[k-1, t-1, a-1].                         *)
(***************************************************************************)
EXTENDS Integers, Sequences, FiniteSets, TLC

\* ------------------------------------------------------------- bounds
\* Most random components one get_action call draws: N * horizon * ac_dim
\* for a uniform batch, times cem_iterations for CEM.
MaxDraws == 4
\* Largest cem_iterations.
MaxIters == 2
\* Largest ensemble.
MaxModels == 2

\* Python's None, and a name that is not bound yet.
None == <<>>

\* An array built elementwise, as the tuple of its elements.
Array(f) == f \o <<>>

\* The element of a one-element set. With {e : v \in {x}} it names the value
\* of x once, so that e reads it as often as it likes.
Only(S) == CHOOSE x \in S : TRUE

\* ---------------------------------------------------------- arithmetic
Abs(x) == IF x < 0 THEN -x ELSE x

RECURSIVE Gcd(_, _)
Gcd(a, b) == IF b = 0 THEN a ELSE Gcd(b, a % b)

Frac(n, d) == LET g == Gcd(Abs(n), d) IN <<n \div g, d \div g>>

Num(n) == <<n, 1>>

Add(p, q) == Frac(p[1] * q[2] + q[1] * p[2], p[2] * q[2])

Sub(p, q) == Frac(p[1] * q[2] - q[1] * p[2], p[2] * q[2])

Mul(p, q) == Frac(p[1] * q[1], p[2] * q[2])

DivBy(p, k) == Frac(p[1], p[2] * k)

Less(p, q) == p[1] * q[2] < q[1] * p[2]

LessEq(p, q) == p[1] * q[2] <= q[1] * p[2]

RECURSIVE SumTo(_, _)
SumTo(f, n) == IF n = 0 THEN Num(0) ELSE Add(SumTo(f, n - 1), f[n])

\* The sum of the components of a tuple of numbers.
Total(v) == SumTo(v, Len(v))

\* ------------------------------------------------------- collaborators
\* The action space of the environment: one bound pair per action dimension.
EnvLow == <<Num(-1), Num(0)>>

EnvHigh == <<Num(1), Num(2)>>

Observations == {Num(0), Num(1)}

\* The values data_statistics takes once it has been set from outside: the
\* mean of the observation deltas the models were trained on.
Statistics == {<<Num(0)>>, <<Num(1)>>}

\* env.get_reward on one row: the reward and the done flag.
GetReward(ob, ac) ==
    LET pos == Add(ob, Total(ac))
    IN  [reward |-> Sub(Num(0), Mul(pos, pos)), done |-> ~Less(Mul(pos, pos), Num(4))]

\* model.get_prediction of ensemble member m on one row.
GetPrediction(m, ob, ac, stats) ==
    Add(Add(ob, Mul(Num(m), Total(ac))), stats[1])

\* ---------------------------------------------------------------- state
VARIABLES
    phase,                       \* "new" before __init__, then "ready" or "failed"
    sample_strategy, N, horizon, ac_dim, dyn_models,
    cem_iterations, cem_num_elites, cem_alpha,
    data_statistics,             \* None until it is set from outside
    argsort_ties,                \* how this numpy build orders equal keys in argsort
    pc,                          \* "idle", "cem" (inside the loop), "returned", "raised"
    op,                          \* the method last entered
    obs,                         \* its observation argument
    args,                        \* its other arguments
    i,                           \* the CEM loop counter
    sampled_action_sequences, all_rewards, elites_indices,
    running_mean, running_var,
    candidate_action_sequences,  \* the batch get_action or evaluate works on
    predicted_rewards,           \* get_action's scores of that batch
    ret,                         \* the value last returned
    calls,                       \* the collaborator calls of the running or last method
    tape,                        \* the random numbers a seeded generator replays
    first                        \* the first get_action call that returned: its
                                 \* observation, data_statistics and action, and
                                 \* whether a later call was given the same

config == <<sample_strategy, N, horizon, ac_dim, dyn_models,
            cem_iterations, cem_num_elites, cem_alpha, argsort_ties>>

locals == <<i, sampled_action_sequences, all_rewards, elites_indices,
            running_mean, running_var>>

frame == <<pc, op, obs, args, locals, candidate_action_sequences,
           predicted_rewards, ret, calls>>

vars == <<phase, config, data_statistics, frame, tape, first>>

\* ------------------------------------------------------------ sampling
\* self.low and self.high, cut to ac_dim components.
Low == SubSeq(EnvLow, 1, ac_dim)

High == SubSeq(EnvHigh, 1, ac_dim)

\* What one random number can be: the least and the greatest outcome.
Levels == {0, 1}

\* The random numbers one batch of shape (n, h, ac_dim) consumes.
DrawArrays(n, h) == [1..n -> [1..h -> [1..ac_dim -> Levels]]]

\* Faulty variant: the bounds of the first action dimension are used for every one.
UniformValueFirstDim(a, u) == Add(Low[1], Mul(Num(u), Sub(High[1], Low[1])))

\* np.random.uniform(low, high) for one component.
UniformValue(a, u) == Add(Low[a], Mul(Num(u), Sub(High[a], Low[a])))

\* np.random.uniform(low=self.low, high=self.high, size=(n, h, self.ac_dim))
Uniform(n, h, u) ==
    Array([k \in 1..n |-> Array([t \in 1..h |-> Array([a \in 1..ac_dim |->
        UniformValue(a, u[k][t][a])])])])

\* np.random.normal(loc, scale=sqrt(var)) for one component: loc itself when
\* the scale is zero; otherwise, a Gaussian having every real in its support,
\* loc moved down or up by the deviation the draw gives, here two units.
NormalValue(loc, var, u) ==
    IF var = Num(0) THEN loc ELSE Add(loc, Num(4 * u - 2))

\* np.random.normal(loc=running_mean, scale=np.sqrt(running_var), size=(n, h, self.ac_dim))
Normal(mean, var, n, h, u) ==
    Array([k \in 1..n |-> Array([t \in 1..h |-> Array([a \in 1..ac_dim |->
        NormalValue(mean[t][a], var[t][a], u[k][t][a])])])])

\* ------------------------------------------------------------- rollout
\* One pass of the loop of calculate_sum_of_rewards, at timestep t: the reward
\* on the current observations is added, then the model predicts the next ones.
RolloutStep(t, st, batch, m) ==
    LET n == Len(batch)
    IN  [obs |-> Array([k \in 1..n |->
                    GetPrediction(m, st.obs[k], batch[k][t], data_statistics)]),
         sum |-> Array([k \in 1..n |->
                    Add(st.sum[k], GetReward(st.obs[k], batch[k][t]).reward)]),
         log |-> st.log \o
                 << [call |-> "get_reward", obs |-> st.obs,
                     actions |-> Array([k \in 1..n |-> batch[k][t]]),
                     dones |-> Array([k \in 1..n |->
                                  GetReward(st.obs[k], batch[k][t]).done])],
                    [call |-> "get_prediction", model |-> m, obs |-> st.obs,
                     actions |-> Array([k \in 1..n |-> batch[k][t]]),
                     stats |-> data_statistics] >>]

\* Faulty variant: the loop ends once every candidate is done.
RECURSIVE RolloutUntilDone(_, _, _, _)
RolloutUntilDone(t, st, batch, m) ==
    IF t > horizon THEN st
    ELSE IF t > 1 /\ \A k \in 1..Len(batch) : st.log[Len(st.log) - 1].dones[k] THEN st
    ELSE Only({RolloutUntilDone(t + 1, nxt, batch, m) :
               nxt \in {RolloutStep(t, st, batch, m)}})

\* for t in range(self.horizon), from timestep t on.
RECURSIVE Rollout(_, _, _, _)
Rollout(t, st, batch, m) ==
    IF t > horizon THEN st
    ELSE Only({Rollout(t + 1, nxt, batch, m) : nxt \in {RolloutStep(t, st, batch, m)}})

\* calculate_sum_of_rewards(obs, candidate_action_sequences, model)
CalculateSumOfRewards(ob, batch, m) ==
    IF Len(batch[1]) # horizon
    THEN [raised |-> TRUE, sum |-> None, log |-> <<>>]
    ELSE Only({[raised |-> FALSE, sum |-> r.sum, log |-> r.log] :
               r \in {Rollout(1, [obs |-> Array([k \in 1..Len(batch) |-> ob]),
                                  sum |-> Array([k \in 1..Len(batch) |-> Num(0)]),
                                  log |-> <<>>], batch, m)}})

\* One pass of the loop over self.dyn_models: member j's rewards are added.
EnsembleStep(j, acc, batch, ob) ==
    Only({IF r.raised THEN [raised |-> TRUE, sum |-> None, log |-> acc.log]
          ELSE [raised |-> FALSE,
                sum |-> Array([k \in 1..Len(batch) |-> Add(acc.sum[k], r.sum[k])]),
                log |-> acc.log \o r.log] :
          r \in {CalculateSumOfRewards(ob, batch, dyn_models[j])}})

\* for model in self.dyn_models, from member j on.
RECURSIVE EnsembleSum(_, _, _, _)
EnsembleSum(j, acc, batch, ob) ==
    IF j > Len(dyn_models) \/ acc.raised THEN acc
    ELSE Only({EnsembleSum(j + 1, nxt, batch, ob) : nxt \in {EnsembleStep(j, acc, batch, ob)}})

\* evaluate_candidate_sequences(candidate_action_sequences, obs)
EvaluateCandidateSequences(batch, ob) ==
    LET num_sequences == Len(batch)
    IN  Only({IF s.raised THEN [raised |-> TRUE, rewards |-> None, log |-> s.log]
              ELSE [raised |-> FALSE,
                    rewards |-> Array([k \in 1..num_sequences |->
                                   DivBy(s.sum[k], num_sequences)]),
                    log |-> s.log] :
              s \in {EnsembleSum(1, [raised |-> FALSE,
                                     sum |-> Array([k \in 1..num_sequences |-> Num(0)]),
                                     log |-> << [call |-> "evaluate_candidate_sequences"] >>],
                                 batch, ob)}})

\* ------------------------------------------------------------------ CEM
Min(x, y) == IF x < y THEN x ELSE y

Max(x, y) == IF x > y THEN x ELSE y

\* Whether index j comes before index k in r.argsort(): by value, and among
\* equal values in the order this build's sort leaves them.
Before(r, j, k) ==
    \/ Less(r[j], r[k])
    \/ r[j] = r[k] /\ (IF argsort_ties = "stable" THEN j < k ELSE j > k)

\* r.argsort(): the indices of r in ascending order of value.
Argsort(r) ==
    Array([p \in 1..Len(r) |->
        CHOOSE k \in 1..Len(r) : Cardinality({j \in 1..Len(r) : Before(r, j, k)}) = p - 1])

\* Python's s[start:] for a start that may be negative.
SliceFrom(s, start) ==
    SubSeq(s, (IF start < 0 THEN Max(Len(s) + start, 0) ELSE Min(start, Len(s))) + 1, Len(s))

\* all_rewards.argsort()[-self.cem_num_elites:]
ElitesIndices(r) == Only({SliceFrom(order, -cem_num_elites) : order \in {Argsort(r)}})

RECURSIVE SumOver(_, _, _, _, _)
SumOver(batch, idx, p, t, a) ==
    IF p = 0 THEN Num(0) ELSE Add(SumOver(batch, idx, p - 1, t, a), batch[idx[p]][t][a])

\* np.mean(batch[idx, :, :], axis=0)
MeanAxis0(batch, idx) ==
    Array([t \in 1..Len(batch[1]) |-> Array([a \in 1..ac_dim |->
        DivBy(SumOver(batch, idx, Len(idx), t, a), Len(idx))])])

RECURSIVE SumSqOver(_, _, _, _, _, _)
SumSqOver(batch, idx, p, t, a, mu) ==
    IF p = 0 THEN Num(0)
    ELSE LET d == Sub(batch[idx[p]][t][a], mu)
         IN  Add(SumSqOver(batch, idx, p - 1, t, a, mu), Mul(d, d))

\* np.var(batch[idx, :, :], axis=0)
VarAxis0(batch, idx) ==
    Only({Array([t \in 1..Len(batch[1]) |-> Array([a \in 1..ac_dim |->
              DivBy(SumSqOver(batch, idx, Len(idx), t, a, mu[t][a]), Len(idx))])]) :
          mu \in {MeanAxis0(batch, idx)}})

\* self.cem_alpha * new + (1 - self.cem_alpha) * old, elementwise
Smooth(new, old) ==
    Array([t \in 1..Len(new) |-> Array([a \in 1..ac_dim |->
        Add(Mul(cem_alpha, new[t][a]), Mul(Sub(Num(1), cem_alpha), old[t][a]))])])

\* The candidates of iteration it: uniform on the first, Gaussian afterwards.
CemSample(it, n, h, u) ==
    IF it = 0 THEN Uniform(n, h, u) ELSE Normal(running_mean, running_var, n, h, u)

\* running_mean after iteration it, whose elites have the mean elite_mean.
UpdatedMean(it, elite_mean) ==
    IF it = 0 THEN elite_mean ELSE Smooth(elite_mean, running_mean)

UpdatedVar(it, elite_var) ==
    IF it = 0 THEN elite_var ELSE Smooth(elite_var, running_var)

\* Faulty variant: the refined running mean is returned.
CemActionRunningMean == running_mean

\* cem_action: what sample_action_sequences returns (before [None]) after the loop.
CemAction == MeanAxis0(sampled_action_sequences, elites_indices)

\* Faulty variant: np.argmin.
ArgMin(r) ==
    CHOOSE k \in 1..Len(r) :
        /\ \A j \in 1..Len(r) : LessEq(r[k], r[j])
        /\ \A j \in 1..(k - 1) : r[j] # r[k]

\* np.argmax(r): the first index of the greatest value.
ArgMax(r) ==
    CHOOSE k \in 1..Len(r) :
        /\ \A j \in 1..Len(r) : LessEq(r[j], r[k])
        /\ \A j \in 1..(k - 1) : r[j] # r[k]

\* --------------------------------------------------------- construction
\* The defaults of __init__.
DefaultCemIterations == 4

DefaultCemNumElites == 5

DefaultCemAlpha == Num(1)

\* The random numbers one get_action call of this policy draws at most.
DrawsPerCall ==
    N * horizon * ac_dim * (IF sample_strategy = "cem" THEN cem_iterations ELSE 1)

\* The arguments __init__ is called with. The CEM parameters are read by the
\* CEM branch alone, and cem_alpha only from the second iteration on, so they
\* vary only where they are read and are the defaults elsewhere.
Arguments ==
    /\ sample_strategy \in {"random", "cem", "mppi"}
    /\ ac_dim \in 1..Len(EnvLow)
    /\ N \in 1..MaxDraws
    /\ horizon \in 1..MaxDraws
    /\ dyn_models \in {Array([j \in 1..m |-> j]) : m \in 1..MaxModels}
    /\ IF sample_strategy = "cem"
       THEN /\ cem_iterations \in 1..MaxIters
            /\ cem_num_elites \in 0..(N + 1)
            /\ cem_alpha \in (IF cem_iterations > 1 THEN {Frac(1, 2), Num(1)}
                              ELSE {DefaultCemAlpha})
            /\ argsort_ties \in (IF N > 1 THEN {"stable", "reversed"} ELSE {"stable"})
       ELSE /\ cem_iterations = DefaultCemIterations
            /\ cem_num_elites = DefaultCemNumElites
            /\ cem_alpha = DefaultCemAlpha
            /\ argsort_ties = "stable"
    /\ DrawsPerCall <= MaxDraws
    /\ sample_strategy = "mppi" => N = 1 /\ horizon = 1 /\ ac_dim = 1 /\ Len(dyn_models) = 1

NoFrame ==
    /\ pc = "idle" /\ op = "none" /\ obs = None /\ args = None
    /\ i = 0 /\ sampled_action_sequences = None /\ all_rewards = None
    /\ elites_indices = None /\ running_mean = None /\ running_var = None
    /\ candidate_action_sequences = None /\ predicted_rewards = None
    /\ ret = None /\ calls = <<>>

Init ==
    /\ phase = "new"
    /\ Arguments
    /\ data_statistics = None
    /\ NoFrame
    /\ tape = <<>>
    /\ first = None

\* __init__: the only check is the assertion on sample_strategy.
Construct ==
    /\ phase = "new"
    /\ phase' = (IF sample_strategy \in {"random", "cem"} THEN "ready" ELSE "failed")
    /\ UNCHANGED <<config, data_statistics, frame>>

\* data_statistics is assigned from outside, between two calls.
SetStatistics(s) ==
    /\ phase = "ready"
    /\ pc = "idle"
    /\ s # data_statistics
    /\ data_statistics' = s
    /\ UNCHANGED <<phase, config, frame>>

\* ----------------------------------------------------------- get_action
\* The first branch of sample_action_sequences: uniform sampling.
UsesUniform(ob) ==
    \/ sample_strategy = "random"
    \/ sample_strategy = "cem" /\ ob = None

\* A method is entered: its frame starts with nothing bound.
Enter(name, ob, other) ==
    /\ phase = "ready"
    /\ pc = "idle"
    /\ op' = name
    /\ obs' = ob
    /\ args' = other

NoCemLocals ==
    /\ i' = 0 /\ sampled_action_sequences' = None /\ all_rewards' = None
    /\ elites_indices' = None /\ running_mean' = None /\ running_var' = None

\* get_action from `if candidate_action_sequences.shape[0] == 1` on.
SelectAction(batch, ob) ==
    IF Len(batch) = 1
    THEN [ret |-> <<batch[1][1]>>, rewards |-> None, log |-> <<>>]
    ELSE Only({[ret |-> <<batch[ArgMax(ev.rewards)][1]>>,
                rewards |-> ev.rewards, log |-> ev.log] :
               ev \in {EvaluateCandidateSequences(batch, ob)}})

\* Faulty variant: the fallback samples with the policy's own N and horizon.
GetActionUncalibratedFullBatch(ob, u) ==
    /\ Enter("get_action", ob, None)
    /\ data_statistics = None
    /\ NoCemLocals
    /\ candidate_action_sequences' = None
    /\ predicted_rewards' = None
    /\ ret' = Uniform(N, horizon, [k \in 1..N |-> [t \in 1..horizon |-> u[1][1]]])[1]
    /\ calls' = <<>>
    /\ pc' = "returned"
    /\ UNCHANGED <<phase, config, data_statistics>>

\* Faulty variant: the fallback leaves N = 1 and horizon = 1 behind.
GetActionUncalibratedShrinking(ob, u) ==
    /\ Enter("get_action", ob, None)
    /\ data_statistics = None
    /\ NoCemLocals
    /\ candidate_action_sequences' = None
    /\ predicted_rewards' = None
    /\ ret' = Uniform(1, 1, u)[1]
    /\ calls' = <<>>
    /\ pc' = "returned"
    /\ N' = 1 /\ horizon' = 1
    /\ UNCHANGED <<phase, sample_strategy, ac_dim, dyn_models, cem_iterations,
                   cem_num_elites, cem_alpha, argsort_ties, data_statistics>>

\* get_action while data_statistics is None.
GetActionUncalibrated(ob, u) ==
    /\ Enter("get_action", ob, None)
    /\ data_statistics = None
    /\ UsesUniform(None)
    /\ NoCemLocals
    /\ candidate_action_sequences' = None
    /\ predicted_rewards' = None
    /\ ret' = Uniform(1, 1, u)[1]
    /\ calls' = <<>>
    /\ pc' = "returned"
    /\ UNCHANGED <<phase, config, data_statistics>>

\* get_action, calibrated, when sample_action_sequences samples uniformly.
GetActionRandom(ob, u) ==
    /\ Enter("get_action", ob, None)
    /\ data_statistics # None
    /\ UsesUniform(ob)
    /\ NoCemLocals
    /\ \E batch \in {Uniform(N, horizon, u)} : \E sel \in {SelectAction(batch, ob)} :
           /\ candidate_action_sequences' = batch
           /\ predicted_rewards' = sel.rewards
           /\ ret' = sel.ret
           /\ calls' = sel.log
    /\ pc' = "returned"
    /\ UNCHANGED <<phase, config, data_statistics>>

\* get_action, calibrated, enters the CEM loop of sample_action_sequences.
GetActionCem(ob) ==
    /\ Enter("get_action", ob, None)
    /\ data_statistics # None
    /\ ~UsesUniform(ob)
    /\ sample_strategy = "cem"
    /\ i' = 0
    /\ sampled_action_sequences' = None /\ all_rewards' = None
    /\ elites_indices' = None /\ running_mean' = None /\ running_var' = None
    /\ candidate_action_sequences' = None
    /\ predicted_rewards' = None
    /\ ret' = None
    /\ calls' = <<>>
    /\ pc' = "cem"
    /\ UNCHANGED <<phase, config, data_statistics>>

\* One iteration of the loop: sample, score, pick the elites, update.
CemIteration(u) ==
    /\ pc = "cem"
    /\ i < cem_iterations
    /\ \E batch \in {CemSample(i, N, horizon, u)} :
       \E ev \in {EvaluateCandidateSequences(batch, obs)} :
       \E elites \in {ElitesIndices(ev.rewards)} :
           /\ sampled_action_sequences' = batch
           /\ all_rewards' = ev.rewards
           /\ elites_indices' = elites
           /\ running_mean' = UpdatedMean(i, MeanAxis0(batch, elites))
           /\ running_var' = UpdatedVar(i, VarAxis0(batch, elites))
           /\ calls' = calls \o ev.log
    /\ i' = i + 1
    /\ UNCHANGED <<phase, config, data_statistics, pc, op, obs, args,
                   candidate_action_sequences, predicted_rewards, ret>>

\* After the loop: cem_action[None] goes back to get_action, which returns.
CemReturn ==
    /\ pc = "cem"
    /\ i = cem_iterations
    /\ \E batch \in {<<CemAction>>} : \E sel \in {SelectAction(batch, obs)} :
           /\ candidate_action_sequences' = batch
           /\ predicted_rewards' = sel.rewards
           /\ ret' = sel.ret
           /\ calls' = calls \o sel.log
    /\ pc' = "returned"
    /\ UNCHANGED <<phase, config, data_statistics, op, obs, args, locals>>

\* The caller takes what the method returned or raised; the frame is gone.
Resume ==
    /\ pc \in {"returned", "raised"}
    /\ pc' = "idle" /\ op' = "none" /\ obs' = None /\ args' = None
    /\ NoCemLocals
    /\ candidate_action_sequences' = None /\ predicted_rewards' = None
    /\ ret' = None /\ calls' = <<>>
    /\ UNCHANGED <<phase, config, data_statistics>>

hist == <<tape, first>>

Next ==
    \/ Construct /\ UNCHANGED hist
    \/ pc = "idle" /\ \E s \in Statistics : SetStatistics(s) /\ UNCHANGED hist
    \/ pc = "idle" /\ \E ob \in Observations : \E u \in DrawArrays(1, 1) :
          GetActionUncalibrated(ob, u) /\ UNCHANGED hist
    \/ pc = "idle" /\ \E ob \in Observations : \E u \in DrawArrays(N, horizon) :
          GetActionRandom(ob, u) /\ UNCHANGED hist
    \/ pc = "idle" /\ \E ob \in Observations : GetActionCem(ob) /\ UNCHANGED hist
    \/ pc = "cem" /\ \E u \in DrawArrays(N, horizon) : CemIteration(u) /\ UNCHANGED hist
    \/ CemReturn /\ UNCHANGED hist
    \/ Resume /\ UNCHANGED hist

Spec == Init /\ [][Next]_vars

\* ------------------------------------------------- the methods, called alone
\* The shapes (num_sequences, horizon) and the batches a caller passes: every
\* shape within the bound, each component at one end of its range.
Shapes == {sh \in (1..MaxDraws) \X (1..MaxDraws) : sh[1] * sh[2] * ac_dim <= MaxDraws}

Batches ==
    UNION {{Uniform(sh[1], sh[2], u) : u \in DrawArrays(sh[1], sh[2])} : sh \in Shapes}

\* sample_action_sequences(num_sequences, horizon, obs) in its first branch.
CallSampleActionSequences(num_sequences, hor, ob, u) ==
    /\ Enter("sample_action_sequences", ob, <<num_sequences, hor>>)
    /\ UsesUniform(ob)
    /\ NoCemLocals
    /\ candidate_action_sequences' = None
    /\ predicted_rewards' = None
    /\ ret' = Uniform(num_sequences, hor, u)
    /\ calls' = <<>>
    /\ pc' = "returned"
    /\ UNCHANGED <<phase, config, data_statistics>>

\* evaluate_candidate_sequences(candidate_action_sequences, obs)
CallEvaluateCandidateSequences(batch, ob) ==
    /\ Enter("evaluate_candidate_sequences", ob, None)
    /\ NoCemLocals
    /\ candidate_action_sequences' = batch
    /\ predicted_rewards' = None
    /\ \E ev \in {EvaluateCandidateSequences(batch, ob)} :
           /\ ret' = ev.rewards
           /\ calls' = ev.log
           /\ pc' = (IF ev.raised THEN "raised" ELSE "returned")
    /\ UNCHANGED <<phase, config, data_statistics>>

\* calculate_sum_of_rewards(obs, candidate_action_sequences, model)
CallCalculateSumOfRewards(ob, batch, m) ==
    /\ Enter("calculate_sum_of_rewards", ob, <<m>>)
    /\ NoCemLocals
    /\ candidate_action_sequences' = batch
    /\ predicted_rewards' = None
    /\ \E r \in {CalculateSumOfRewards(ob, batch, m)} :
           /\ ret' = r.sum
           /\ calls' = r.log
           /\ pc' = (IF r.raised THEN "raised" ELSE "returned")
    /\ UNCHANGED <<phase, config, data_statistics>>

\* A constructed, calibrated policy whose methods are called one at a time.
\* N and the CEM parameters are not read by these calls.
InitCalls ==
    /\ phase = "ready"
    /\ Arguments
    /\ sample_strategy # "mppi"
    /\ N = 1 /\ cem_iterations = 1 /\ cem_num_elites = 1 /\ argsort_ties = "stable"
    /\ data_statistics \in Statistics
    /\ NoFrame
    /\ tape = <<>>
    /\ first = None

NextCalls ==
    \/ pc = "idle" /\ \E sh \in Shapes : \E ob \in Observations \cup {None} :
          \E u \in DrawArrays(sh[1], sh[2]) :
             CallSampleActionSequences(sh[1], sh[2], ob, u) /\ UNCHANGED hist
    \/ pc = "idle" /\ \E batch \in Batches : \E ob \in Observations :
          CallEvaluateCandidateSequences(batch, ob) /\ UNCHANGED hist
    \/ pc = "idle" /\ \E batch \in Batches : \E ob \in Observations :
          \E j \in 1..Len(dyn_models) :
             CallCalculateSumOfRewards(ob, batch, dyn_models[j]) /\ UNCHANGED hist
    \/ Resume /\ UNCHANGED hist

SpecCalls == InitCalls /\ [][NextCalls]_vars

\* ------------------------------------------ get_action under a seeded generator
\* The random numbers of a batch of shape (n, h, ac_dim) read off the tape
\* from position offset + 1 on, in numpy's row-major order.
TapeArray(n, h, offset) ==
    Array([k \in 1..n |-> Array([t \in 1..h |-> Array([a \in 1..ac_dim |->
        tape[offset + ((k - 1) * h + (t - 1)) * ac_dim + a]])])])

\* A constructed policy; every get_action call draws the same random numbers.
InitSeeded ==
    /\ phase = "ready"
    /\ Arguments
    /\ sample_strategy # "mppi"
    /\ data_statistics = None
    /\ NoFrame
    /\ Len(dyn_models) = MaxModels
    /\ tape \in [1..DrawsPerCall -> Levels]
    /\ first = None

\* The first call that returns is remembered, with what it was given.
Remember ==
    /\ first' = (IF pc' # "returned" THEN first
                 ELSE IF first = None THEN <<obs', data_statistics', ret', FALSE>>
                 ELSE IF first[1] = obs' /\ first[2] = data_statistics'
                      THEN <<first[1], first[2], first[3], TRUE>>
                 ELSE first)
    /\ UNCHANGED tape

NextSeeded ==
    \/ pc = "idle" /\ data_statistics = None
          /\ \E s \in Statistics : SetStatistics(s) /\ Remember
    \/ pc = "idle" /\ \E ob \in Observations :
          GetActionUncalibrated(ob, TapeArray(1, 1, 0)) /\ Remember
    \/ pc = "idle" /\ \E ob \in Observations :
          GetActionRandom(ob, TapeArray(N, horizon, 0)) /\ Remember
    \/ pc = "idle" /\ \E ob \in Observations : GetActionCem(ob) /\ Remember
    \/ pc = "cem" /\ i < cem_iterations
          /\ CemIteration(TapeArray(N, horizon, i * N * horizon * ac_dim)) /\ Remember
    \/ CemReturn /\ Remember
    \/ Resume /\ Remember

SpecSeeded == InitSeeded /\ [][NextSeeded]_vars

\* ------------------------------------------------------------ properties
InRange(action) ==
    \A a \in 1..ac_dim : LessEq(Low[a], action[a]) /\ LessEq(action[a], High[a])

CalibratedReturn == pc = "returned" /\ op = "get_action" /\ data_statistics # None

EvaluateCalls == {p \in 1..Len(calls) : calls[p].call = "evaluate_candidate_sequences"}

\* C1: calibrated, random strategy, N >= 2: get_action scores the N sampled
\* candidates with one call of evaluate_candidate_sequences and returns the
\* first action of a candidate no other candidate scores strictly higher than.
C1_RandomReturnsBest ==
    (CalibratedReturn /\ sample_strategy = "random" /\ N >= 2) =>
        /\ Len(candidate_action_sequences) = N
        /\ Cardinality(EvaluateCalls) = 1
        /\ predicted_rewards = EvaluateCandidateSequences(candidate_action_sequences, obs).rewards
        /\ \E k \in 1..N :
              /\ ret = <<candidate_action_sequences[k][1]>>
              /\ \A j \in 1..N : LessEq(predicted_rewards[j], predicted_rewards[k])

\* A returned call in which the first candidate is not a best one.
C1_Witness ==
    /\ CalibratedReturn /\ sample_strategy = "random" /\ N >= 2
    /\ \E j \in 1..N : Less(predicted_rewards[1], predicted_rewards[j])
    /\ ret # <<candidate_action_sequences[1][1]>>

RECURSIVE EnsembleTotal(_, _)
EnsembleTotal(j, k) ==
    IF j = 0 THEN Num(0)
    ELSE Add(EnsembleTotal(j - 1, k),
             CalculateSumOfRewards(obs, candidate_action_sequences, dyn_models[j]).sum[k])

EvaluateReturn == pc = "returned" /\ op = "evaluate_candidate_sequences"

\* C2: evaluate_candidate_sequences returns, for a batch of N sequences and M
\* models, the vector of length N whose entry k is the models' rollout rewards
\* of candidate k averaged over the M models and then divided by N.
C2_EnsembleMeanOverN ==
    EvaluateReturn =>
        /\ Len(ret) = Len(candidate_action_sequences)
        /\ \A k \in 1..Len(ret) :
              ret[k] = DivBy(DivBy(EnsembleTotal(Len(dyn_models), k), Len(dyn_models)),
                             Len(candidate_action_sequences))

CemReturned ==
    /\ CalibratedReturn /\ sample_strategy = "cem"
    /\ cem_iterations >= 1 /\ i = cem_iterations

Elites == {elites_indices[p] : p \in 1..Len(elites_indices)}

\* The elites are cem_num_elites distinct candidates of the batch scored
\* last, and no other candidate of it scores strictly higher than one of them.
TopOfLastBatch ==
    /\ all_rewards = EvaluateCandidateSequences(sampled_action_sequences, obs).rewards
    /\ Len(elites_indices) = cem_num_elites
    /\ Cardinality(Elites) = cem_num_elites
    /\ Elites \subseteq 1..Len(sampled_action_sequences)
    /\ \A e \in Elites : \A j \in (1..Len(sampled_action_sequences)) \ Elites :
          LessEq(all_rewards[j], all_rewards[e])

RECURSIVE EliteTotal(_, _, _)
EliteTotal(p, t, a) ==
    IF p = 0 THEN Num(0)
    ELSE Add(EliteTotal(p - 1, t, a), sampled_action_sequences[elites_indices[p]][t][a])

\* C3: cem strategy with an observation, cem_iterations >= 1 and
\* 1 <= cem_num_elites <= N: sample_action_sequences returns one sequence, of
\* shape (1, horizon, ac_dim), the elementwise mean of the elites of the last
\* iteration; every component lies between the least and the greatest value
\* of that component among those elites.
C3_CemReturnsEliteMean ==
    (CemReturned /\ 1 <= cem_num_elites /\ cem_num_elites <= N) =>
        /\ TopOfLastBatch
        /\ Len(candidate_action_sequences) = 1
        /\ Len(candidate_action_sequences[1]) = horizon
        /\ \A t \in 1..horizon :
              /\ Len(candidate_action_sequences[1][t]) = ac_dim
              /\ \A a \in 1..ac_dim :
                    /\ Mul(Num(cem_num_elites), candidate_action_sequences[1][t][a])
                          = EliteTotal(cem_num_elites, t, a)
                    /\ \E e \in Elites : LessEq(sampled_action_sequences[e][t][a],
                                                candidate_action_sequences[1][t][a])
                    /\ \E e \in Elites : LessEq(candidate_action_sequences[1][t][a],
                                                sampled_action_sequences[e][t][a])

\* A CEM call of several iterations has returned, after smoothing with
\* cem_alpha < 1, a sequence that is not the running mean.
C3_Witness ==
    /\ CemReturned /\ 1 <= cem_num_elites /\ cem_num_elites <= N
    /\ cem_iterations >= 2 /\ cem_alpha # Num(1)
    /\ candidate_action_sequences[1] # running_mean

\* C4: a policy whose cem_num_elites exceeds N is refused by __init__, so the
\* elites are never picked from fewer than cem_num_elites candidates.
C4_ElitesFitTheBatch ==
    /\ (phase = "ready" /\ sample_strategy = "cem") => cem_num_elites <= N
    /\ (op = "get_action" /\ elites_indices # None) =>
          cem_num_elites <= Len(sampled_action_sequences)

UncalibratedReturn == pc = "returned" /\ op = "get_action" /\ data_statistics = None

CollaboratorCalls == {p \in 1..Len(calls) : calls[p].call \in {"get_reward", "get_prediction"}}

\* C5: while data_statistics is None, get_action (either strategy) returns the
\* first element of one uniformly sampled one-step sequence and calls neither
\* env.get_reward nor a model; data_statistics changes only when it is
\* assigned from outside, never in a step of get_action.
C5_UncalibratedFallback ==
    /\ [](UncalibratedReturn =>
            /\ Len(ret) = 1
            /\ Len(ret[1]) = ac_dim
            /\ InRange(ret[1])
            /\ CollaboratorCalls = {}
            /\ EvaluateCalls = {})
    /\ [][data_statistics' # data_statistics =>
            (pc = "idle" /\ pc' = "idle" /\ data_statistics' \in Statistics)]_vars

\* An uncalibrated call of a CEM policy with a longer horizon has returned.
C5_Witness ==
    /\ UncalibratedReturn /\ sample_strategy = "cem" /\ horizon >= 2 /\ N >= 2
    /\ ret # None

SampleReturn == pc = "returned" /\ op = "sample_action_sequences"

C7_NoStateAcrossCalls ==
    [][(op' = "get_action" /\ pc' \in {"cem", "returned"}) =>
          /\ UNCHANGED <<phase, config, data_statistics>>
          /\ pc = "idle" => (running_mean' = None /\ running_var' = None)
          /\ (pc' = "returned" /\ first # None
                /\ first[1] = obs' /\ first[2] = data_statistics') => ret' = first[3]
      ]_vars

\* A CEM call of several iterations has returned after the first call was
\* given the same observation and data_statistics.
C7_Witness ==
    /\ CalibratedReturn /\ sample_strategy = "cem"
    /\ cem_iterations >= 2 /\ N >= 2 /\ cem_alpha # Num(1)
    /\ first # None /\ first[4] /\ first[1] = obs /\ first[2] = data_statistics
    /\ running_var # Array([t \in 1..horizon |-> Array([a \in 1..ac_dim |-> Num(0)])])

\* C8: in every CEM iteration with 0 <= cem_num_elites <= N the elites are
\* exactly cem_num_elites distinct candidates, none of the others scoring
\* strictly higher than one of them.
C8_ExactlyNumElites ==
    (op = "get_action" /\ elites_indices # None
        /\ 0 <= cem_num_elites /\ cem_num_elites <= N) => TopOfLastBatch

SumOfRewardsReturn == pc = "returned" /\ op = "calculate_sum_of_rewards"

RECURSIVE RewardTotal(_, _)
RewardTotal(t, k) ==
    IF t = 0 THEN Num(0)
    ELSE Add(RewardTotal(t - 1, k),
             GetReward(calls[2 * t - 1].obs[k], candidate_action_sequences[k][t]).reward)

\* C9: calculate_sum_of_rewards on a batch of the configured horizon makes
\* horizon reward queries and horizon predictions, reward then prediction for
\* each timestep; the reward of timestep t is asked for the observations
\* after t - 1 predictions (the given observation, repeated, at the start) and
\* the actions of timestep t; no done flag ends the loop; every prediction is
\* given data_statistics; the result is each candidate's sum of step rewards.
C9_FullHorizonRollout ==
    SumOfRewardsReturn =>
        LET batch == candidate_action_sequences
            n == Len(batch)
        IN  /\ Len(calls) = 2 * horizon
            /\ \A t \in 1..horizon :
                  /\ calls[2 * t - 1].call = "get_reward"
                  /\ calls[2 * t].call = "get_prediction"
                  /\ calls[2 * t - 1].actions = Array([k \in 1..n |-> batch[k][t]])
                  /\ calls[2 * t].actions = calls[2 * t - 1].actions
                  /\ calls[2 * t].obs = calls[2 * t - 1].obs
                  /\ calls[2 * t].model = args[1]
                  /\ calls[2 * t].stats = data_statistics
                  /\ calls[2 * t - 1].obs =
                        (IF t = 1 THEN Array([k \in 1..n |-> obs])
                         ELSE Array([k \in 1..n |->
                                 GetPrediction(args[1], calls[2 * t - 2].obs[k],
                                               batch[k][t - 1], calls[2 * t - 2].stats)]))
            /\ Len(ret) = n
            /\ \A k \in 1..n : ret[k] = RewardTotal(horizon, k)

\* A rollout of several candidates over several timesteps has returned, in
\* which every candidate was done after the first timestep.
C9_Witness ==
    /\ SumOfRewardsReturn /\ horizon >= 2 /\ Len(candidate_action_sequences) >= 2
    /\ \A k \in 1..Len(candidate_action_sequences) : calls[1].dones[k]
    /\ data_statistics # <<Num(0)>>

\* C10: every component a of the action get_action returns lies within
\* [low[a], high[a]], for both strategies, calibrated or not.
C10_ActionInBounds ==
    (pc = "returned" /\ op = "get_action") => InRange(ret[1])

=============================================================================
